---------------------------- MODULE Spec2Model ----------------------------
(***************************************************************************)
(* A model of the complete-pic crate: the chained 8259 PICs                *)
(* (src/src/pic8259.rs) and the I/O APIC register window                   *)
(* (src/src/apic/ioapic.rs).                                               *)
(*                                                                         *)
(* The driver's state is the two Pic structs (offset, command, data) and   *)
(* a record of the last operation run.  An operation is the sequence of    *)
(* its port accesses, made in program order.  The chips are the 8259s      *)
(* behind the four ports, as the source's comments describe them:          *)
(* PIC_INIT on the command port announces a 3-byte initialization          *)
(* sequence on the data port; with no command issued the data port is the  *)
(* interrupt mask.  The IoApic's state is the two addresses its handles    *)
(* refer to; its callers make their two volatile accesses one at a time.   *)
(***************************************************************************)
EXTENDS Integers, Sequences, FiniteSets, TLC

(***************************************************************************)
(* Program constants of pic8259.rs.                                        *)
(***************************************************************************)
MASTER_CMD == 32
MASTER_DATA == 33
SLAVE_CMD == 160
SLAVE_DATA == 161
PIC_INIT == 17
PIC_EIO == 32
PIC_MODE_8086 == 1
WAIT_PORT == 128
U8_MAX == 255

(***************************************************************************)
(* Program constants of apic/ioapic.rs.                                    *)
(***************************************************************************)
IA_ID_REG == 0
IA_VER_REG == 1
IA_ARB_REG == 2
DATA_OFFSET == 16

\* `1 << n` of the DeliveryMode flags.
Shl(x, n) == x * 2^n

\* bitflags! DeliveryMode: u8
FIXED == Shl(1, 0)
LOW_PRIORITY == Shl(1, 1)
SMI == Shl(1, 2)
NMI == Shl(1, 3)
INIT == 5
EXTINIT == 7

DeliveryMode ==
    [FIXED |-> FIXED, LOW_PRIORITY |-> LOW_PRIORITY, SMI |-> SMI,
     NMI |-> NMI, INIT |-> INIT, EXTINIT |-> EXTINIT]

\* u8 & and |, bit by bit.
RECURSIVE BitAnd(_, _)
BitAnd(a, b) ==
    IF a = 0 \/ b = 0 THEN 0
    ELSE (a % 2) * (b % 2) + 2 * BitAnd(a \div 2, b \div 2)

RECURSIVE BitOr(_, _)
BitOr(a, b) ==
    IF a = 0 THEN b
    ELSE IF b = 0 THEN a
    ELSE (IF a % 2 = 1 \/ b % 2 = 1 THEN 1 ELSE 0)
         + 2 * BitOr(a \div 2, b \div 2)

\* DeliveryMode::contains, as bitflags! generates it: all bits of other
\* are set in self.
Contains(self, other) == BitAnd(self, other) = other

(***************************************************************************)
(* Inputs of the model.                                                    *)
(***************************************************************************)
\* Vector offsets given to ChainedPics::new.  32/40 is the usual remap,
\* 0/8 the power-on default, 247 the last offset whose range ends below
\* 256, 248 the first whose offset + 8 leaves u8.
OffsetInputs == {<<32, 40>>, <<0, 8>>, <<247, 248>>, <<248, 32>>}

\* Interrupt vector numbers handed to handles_interrupt and
\* notify_end_of_interrupt.
IrqInputs == {7, 35, 44, 48, 250, 255}

\* Interrupt masks: those the chips hold at start and those callers write.
MaskInputs == {0, 251, 255}

Chips == {0, 1}

\* Execution contexts that use the one ChainedPics.
NumContexts == 2

Contexts == 1..NumContexts

\* Callers that use one I/O APIC.
NumCallers == 2

Callers == 1..NumCallers

\* Base addresses given to IoApic::new.  (0x7EC0_0000: TLC's integers end
\* below the usual 0xFEC0_0000.)
BaseInputs == {2126512128}

\* Where the build puts the two temporaries of IoApic::new: one stack
\* slot each, or the same slot twice.
TempSlots == {4096, 4100}

\* Register values the I/O APIC holds: 0x0017_0011, the version register
\* of a 24-line I/O APIC, and 0x0F00_0000, an id of 15.
RegisterInputs == {1507345, 251658240}

\* Values callers write with write_reg.
WriteInputs == {7}

\* What a read of a dead stack slot can return: zero, a register-like
\* value, the address the temporary held, or 0x7FFF_FFFF.
GarbageInputs == {0, 1507345, 2126512144, 2147483647}

VARIABLES
    pics,             \* ChainedPics.pics: [offset, command, data] per chip
    chip,             \* the 8259 behind each chip's ports
    overflow_checks,  \* the build: TRUE panics on u8 overflow, FALSE wraps
    pc,               \* "idle", or "panicked" once an operation panicked
    op,               \* the last operation run
    args,             \* its arguments
    result,           \* what it returned
    trace,            \* its port accesses, in order
    pre,              \* the offsets, chips and masks when it began
    prev              \* the operation before it (and, of an initialize, the
                      \* masks when it began)

picVars == <<pics, chip, overflow_checks, pc, op, args, result, trace, pre,
             prev>>

VARIABLES
    ioapic,           \* IoApic: the addresses reg_sel and data refer to
    device,           \* the I/O APIC: its select register and register bank
    lock,             \* the caller holding the guard, 0 when it is free
    call,             \* each caller's transaction in flight
    last              \* the transaction completed last

apicVars == <<ioapic, device, lock, call, last>>

VARIABLES
    flags             \* a DeliveryMode value in use: the named modes it was
                      \* made of, its bits, and the last contains() on it

modeVars == <<flags>>

VARIABLES
    holder,           \* the context holding the Mutex<ChainedPics>, 0 when
                      \* it is free
    ctx,              \* each execution context: the operation it is in, its
                      \* arguments, the next access, the masks it has read,
                      \* and the operation it completed last
    stray             \* TRUE once a chip took a data byte as a handshake
                      \* byte from a context not running initialize

guardVars == <<holder, ctx, stray>>

otherVars == <<modeVars, guardVars>>

vars == <<picVars, apicVars, otherVars>>

(***************************************************************************)
(* u8 arithmetic.                                                          *)
(***************************************************************************)
WrappingAdd(a, b) == (a + b) % 256

Overflows(a, b) == a + b > U8_MAX

(***************************************************************************)
(* Pic and ChainedPics, pure parts.                                        *)
(***************************************************************************)
\* Pic::new
PicNew(offset, command, data) ==
    [offset |-> offset, command |-> command, data |-> data]

\* ChainedPics::new
ChainedPicsNew(master_offset, slave_offset) ==
    [i \in Chips |->
        IF i = 0 THEN PicNew(master_offset, MASTER_CMD, MASTER_DATA)
                 ELSE PicNew(slave_offset, SLAVE_CMD, SLAVE_DATA)]

\* restore with both assignments landing on pics[0].
RestoreFirstOnly(ps) == [ps EXCEPT ![0].offset = 8]

\* ChainedPics::restore
Restore(ps) == [ps EXCEPT ![0].offset = 0, ![1].offset = 8]

\* self.offset + 8 in Pic::handles_interrupt is evaluated only when
\* self.offset <= irq_id (&& is lazy); with overflow checks it panics
\* when it leaves u8.
PicPanics(p, irq_id) ==
    /\ overflow_checks
    /\ p.offset <= irq_id
    /\ Overflows(p.offset, 8)

\* Pic::handles_interrupt, when it returns.
PicHandlesInterrupt(p, irq_id) ==
    p.offset <= irq_id /\ irq_id < WrappingAdd(p.offset, 8)

\* ChainedPics::handles_interrupt: any() over pics[0], pics[1], stopping at
\* the first chip that answers true.
HandlesInterruptPanics(ps, irq_id) ==
    \/ PicPanics(ps[0], irq_id)
    \/ /\ ~PicHandlesInterrupt(ps[0], irq_id)
       /\ PicPanics(ps[1], irq_id)

HandlesInterrupt(ps, irq_id) ==
    \E i \in Chips : PicHandlesInterrupt(ps[i], irq_id)

(***************************************************************************)
(* The chips behind the ports.                                             *)
(***************************************************************************)
\* A chip: mask is its interrupt mask, awaiting the number of
\* initialization bytes it still expects on its data port, base, cascade
\* and mode what the three bytes programmed.
ChipState(mask, awaiting, base, cascade, mode) ==
    [mask |-> mask, awaiting |-> awaiting, base |-> base,
     cascade |-> cascade, mode |-> mode]

\* The chip a port belongs to (2 for the wait port, which no chip decodes).
ChipOf(port) ==
    IF port \in {MASTER_CMD, MASTER_DATA} THEN 0
    ELSE IF port \in {SLAVE_CMD, SLAVE_DATA} THEN 1
    ELSE 2

\* A byte written to a chip's command port.
CommandWrite(c, val) ==
    IF val = PIC_INIT THEN [c EXCEPT !.awaiting = 3, !.mask = 0] ELSE c

\* A byte written to a chip's data port.
DataWrite(c, val) ==
    CASE c.awaiting = 3 -> [c EXCEPT !.base = val, !.awaiting = 2]
      [] c.awaiting = 2 -> [c EXCEPT !.cascade = val, !.awaiting = 1]
      [] c.awaiting = 1 -> [c EXCEPT !.mode = val, !.awaiting = 0]
      [] OTHER -> [c EXCEPT !.mask = val]

\* Port::write
PortWrite(chips, port, val) ==
    IF port \in {MASTER_CMD, SLAVE_CMD}
    THEN [chips EXCEPT ![ChipOf(port)] = CommandWrite(@, val)]
    ELSE IF port \in {MASTER_DATA, SLAVE_DATA}
    THEN [chips EXCEPT ![ChipOf(port)] = DataWrite(@, val)]
    ELSE chips

\* Port::read of a data port: the chip's interrupt mask.
PortRead(chips, port) == chips[ChipOf(port)].mask

(***************************************************************************)
(* Operations as sequences of port accesses.                               *)
(***************************************************************************)
Out(port, val) == [kind |-> "out", port |-> port, val |-> val]

In(port, slot) == [kind |-> "in", port |-> port, val |-> slot]

Wait == Out(WAIT_PORT, 0)

\* read_interrupt_masks reading each data port twice.
ReadInterruptMasksCodeTwice(ps) ==
    <<In(ps[0].data, 1), In(ps[0].data, 1), In(ps[1].data, 2),
      In(ps[1].data, 2)>>

\* ChainedPics::read_interrupt_masks: element i of the returned array is
\* read from pics[i].data.
ReadInterruptMasksCode(ps) == <<In(ps[0].data, 1), In(ps[1].data, 2)>>

\* ChainedPics::write_interrupt_masks
WriteInterruptMasksCode(ps, master_mask, slave_mask) ==
    <<Out(ps[0].data, master_mask), Out(ps[1].data, slave_mask)>>

\* initialize without its last line: the saved masks are not written back.
InitializeCodeNoRestore(ps, saved) ==
    ReadInterruptMasksCode(ps)
    \o <<Out(ps[0].command, PIC_INIT), Wait,
         Out(ps[1].command, PIC_INIT), Wait,
         Out(ps[0].data, ps[0].offset), Wait,
         Out(ps[1].data, ps[1].offset), Wait,
         Out(ps[0].data, 4), Wait,
         Out(ps[1].data, 2), Wait,
         Out(ps[0].data, PIC_MODE_8086), Wait,
         Out(ps[1].data, PIC_MODE_8086), Wait>>

\* initialize sending byte 1 to the secondary chip first, and byte 3 to
\* both chips before a single settling write.
InitializeCodeDisordered(ps, saved) ==
    ReadInterruptMasksCode(ps)
    \o <<Out(ps[0].command, PIC_INIT), Wait,
         Out(ps[1].command, PIC_INIT), Wait,
         Out(ps[1].data, ps[1].offset), Wait,
         Out(ps[0].data, ps[0].offset), Wait,
         Out(ps[0].data, 4), Wait,
         Out(ps[1].data, 2), Wait,
         Out(ps[0].data, PIC_MODE_8086),
         Out(ps[1].data, PIC_MODE_8086), Wait, Wait>>
    \o WriteInterruptMasksCode(ps, saved[1], saved[2])

\* initialize without byte 3: the masks written back are the chips' third
\* handshake bytes.
InitializeCodeShortHandshake(ps, saved) ==
    ReadInterruptMasksCode(ps)
    \o <<Out(ps[0].command, PIC_INIT), Wait,
         Out(ps[1].command, PIC_INIT), Wait,
         Out(ps[0].data, ps[0].offset), Wait,
         Out(ps[1].data, ps[1].offset), Wait,
         Out(ps[0].data, 4), Wait,
         Out(ps[1].data, 2), Wait>>
    \o WriteInterruptMasksCode(ps, saved[1], saved[2])

\* ChainedPics::initialize
InitializeCode(ps, saved) ==
    ReadInterruptMasksCode(ps)
    \o <<Out(ps[0].command, PIC_INIT), Wait,
         Out(ps[1].command, PIC_INIT), Wait,
         Out(ps[0].data, ps[0].offset), Wait,
         Out(ps[1].data, ps[1].offset), Wait,
         Out(ps[0].data, 4), Wait,
         Out(ps[1].data, 2), Wait,
         Out(ps[0].data, PIC_MODE_8086), Wait,
         Out(ps[1].data, PIC_MODE_8086), Wait>>
    \o WriteInterruptMasksCode(ps, saved[1], saved[2])

\* disable masking the primary chip only.
DisableCodeMasterOnly(ps) == <<Out(ps[0].data, U8_MAX)>>

\* ChainedPics::disable
DisableCode(ps) == WriteInterruptMasksCode(ps, U8_MAX, U8_MAX)

\* Pic::end_of_interrupt
EndOfInterruptCode(p) == <<Out(p.command, PIC_EIO)>>

\* notify_end_of_interrupt without its outer range test.
NotifyEndOfInterruptCodeUnguarded(ps, irq_id) ==
    (IF PicHandlesInterrupt(ps[1], irq_id)
     THEN EndOfInterruptCode(ps[1]) ELSE <<>>)
    \o EndOfInterruptCode(ps[0])

\* ChainedPics::notify_end_of_interrupt, when neither range test panics.
NotifyEndOfInterruptCode(ps, irq_id) ==
    IF HandlesInterrupt(ps, irq_id)
    THEN (IF PicHandlesInterrupt(ps[1], irq_id)
          THEN EndOfInterruptCode(ps[1]) ELSE <<>>)
         \o EndOfInterruptCode(ps[0])
    ELSE <<>>

\* notify_end_of_interrupt panics in its first range test (over both
\* chips) or, that one having answered true, in its second (pics[1]).
NotifyEndOfInterruptPanics(ps, irq_id) ==
    \/ HandlesInterruptPanics(ps, irq_id)
    \/ /\ HandlesInterrupt(ps, irq_id)
       /\ PicPanics(ps[1], irq_id)

\* restore reprogramming the chips as initialize does.
CodeRestoreReprograms(name, a, ps, saved) ==
    CASE name \in {"initialize", "restore"} -> InitializeCode(ps, saved)
      [] name = "read_interrupt_masks" -> ReadInterruptMasksCode(ps)
      [] name = "write_interrupt_masks" ->
            WriteInterruptMasksCode(ps, a[1], a[2])
      [] name = "disable" -> DisableCode(ps)
      [] name = "notify_end_of_interrupt" ->
            NotifyEndOfInterruptCode(ps, a[1])
      [] OTHER -> <<>>

\* The port accesses of operation name with arguments a, on the Pic
\* structs ps, saved being what initialize has read so far.
Code(name, a, ps, saved) ==
    CASE name = "initialize" -> InitializeCode(ps, saved)
      [] name = "read_interrupt_masks" -> ReadInterruptMasksCode(ps)
      [] name = "write_interrupt_masks" ->
            WriteInterruptMasksCode(ps, a[1], a[2])
      [] name = "disable" -> DisableCode(ps)
      [] name = "notify_end_of_interrupt" ->
            NotifyEndOfInterruptCode(ps, a[1])
      [] OTHER -> <<>>

(***************************************************************************)
(* Results.                                                                *)
(***************************************************************************)
Unit == [kind |-> "unit", bool |-> FALSE, masks |-> <<0, 0>>]

Bool(b) == [kind |-> "bool", bool |-> b, masks |-> <<0, 0>>]

Masks(m) == [kind |-> "masks", bool |-> FALSE, masks |-> m]

Panic == [kind |-> "panic", bool |-> FALSE, masks |-> <<0, 0>>]

Offsets(ps) == <<ps[0].offset, ps[1].offset>>

ChipMasks(chips) == <<chips[0].mask, chips[1].mask>>

Snapshot ==
    [offsets |-> Offsets(pics), chip |-> chip, masks |-> ChipMasks(chip)]

(***************************************************************************)
(* Init: ChainedPics::new(master_offset, slave_offset) has run; it touched *)
(* no port.  The chips hold some masks and are in no handshake; their      *)
(* vector bases are the power-on 0 and 8 until initialize programs them.   *)
(***************************************************************************)
PicInitWith(o, m, checks) ==
    /\ pics = ChainedPicsNew(o[1], o[2])
    /\ chip = [i \in Chips |-> ChipState(m[i + 1], 0, 8 * i, 0, 0)]
    /\ overflow_checks = checks
    /\ pc = "idle"
    /\ op = "new"
    /\ args = <<>>
    /\ result = Unit
    /\ trace = <<>>
    /\ pre = Snapshot
    /\ prev = [op |-> "new", masks |-> <<0, 0>>]

PicInit ==
    \E o \in OffsetInputs, m0 \in MaskInputs, m1 \in MaskInputs,
       checks \in BOOLEAN :
        PicInitWith(o, <<m0, m1>>, checks)

\* The PICs while the model follows the I/O APIC.
PicParked == PicInitWith(<<32, 40>>, <<0, 0>>, FALSE)

(***************************************************************************)
(* Running an operation: its port accesses happen in program order, reads  *)
(* filling saved_masks, writes reaching the chips.                         *)
(***************************************************************************)
\* What the next operation remembers of the one before it.
Previous ==
    [op |-> op, masks |-> IF op = "initialize" THEN pre.masks ELSE <<0, 0>>]

\* One port access ins in machine state m = [chip, saved_masks, trace].
Access(m, ins) ==
    IF ins.kind = "in"
    THEN LET got == PortRead(m.chip, ins.port)
         IN  [chip |-> m.chip,
              saved_masks |-> [m.saved_masks EXCEPT ![ins.val] = got],
              trace |-> Append(m.trace, [ins EXCEPT !.val = got])]
    ELSE [chip |-> PortWrite(m.chip, ins.port, ins.val),
          saved_masks |-> m.saved_masks,
          trace |-> Append(m.trace, ins)]

\* The accesses of operation name from the i-th on.  The code is looked up
\* again at every access: initialize's last two writes carry what its
\* first two reads returned.
RECURSIVE Exec(_, _, _, _)
Exec(name, a, i, m) ==
    LET code == Code(name, a, pics, m.saved_masks)
    IN  IF i > Len(code) THEN m ELSE Exec(name, a, i + 1, Access(m, code[i]))

\* What operation name returns, saved being the masks it read.
Return(name, a, saved) ==
    CASE name = "read_interrupt_masks" -> Masks(saved)
      [] name = "handles_interrupt" -> Bool(HandlesInterrupt(pics, a[1]))
      [] OTHER -> Unit

\* The caller runs operation name with arguments a to its return.
Call(name, a) ==
    /\ pc = "idle"
    /\ LET m == Exec(name, a, 1,
                     [chip |-> chip, saved_masks |-> <<0, 0>>,
                      trace |-> <<>>])
       IN  /\ chip' = m.chip
           /\ trace' = m.trace
           /\ result' = Return(name, a, m.saved_masks)
    /\ prev' = Previous
    /\ op' = name
    /\ args' = a
    /\ pre' = Snapshot
    /\ pc' = "idle"
    /\ UNCHANGED <<overflow_checks, apicVars, otherVars>>

\* The operation panics in a range test, before any port access; the
\* kernel's panic handler ends the run.
CallPanics(name, a) ==
    /\ pc = "idle"
    /\ prev' = Previous
    /\ op' = name
    /\ args' = a
    /\ pre' = Snapshot
    /\ trace' = <<>>
    /\ pc' = "panicked"
    /\ result' = Panic
    /\ UNCHANGED <<pics, chip, overflow_checks, apicVars, otherVars>>

(***************************************************************************)
(* The operations of ChainedPics.                                          *)
(***************************************************************************)
initialize == Call("initialize", <<>>) /\ UNCHANGED pics

read_interrupt_masks ==
    Call("read_interrupt_masks", <<>>) /\ UNCHANGED pics

write_interrupt_masks ==
    \E master_mask \in MaskInputs, slave_mask \in MaskInputs :
        Call("write_interrupt_masks", <<master_mask, slave_mask>>)
        /\ UNCHANGED pics

disable == Call("disable", <<>>) /\ UNCHANGED pics

handles_interrupt ==
    \E irq_id \in IrqInputs :
        IF HandlesInterruptPanics(pics, irq_id)
        THEN CallPanics("handles_interrupt", <<irq_id>>)
        ELSE Call("handles_interrupt", <<irq_id>>) /\ UNCHANGED pics

notify_end_of_interrupt ==
    \E irq_id \in IrqInputs :
        IF NotifyEndOfInterruptPanics(pics, irq_id)
        THEN CallPanics("notify_end_of_interrupt", <<irq_id>>)
        ELSE Call("notify_end_of_interrupt", <<irq_id>>)
             /\ UNCHANGED pics

restore ==
    /\ Call("restore", <<>>)
    /\ pics' = Restore(pics)

PicNext ==
    \/ initialize
    \/ read_interrupt_masks
    \/ write_interrupt_masks
    \/ disable
    \/ handles_interrupt
    \/ notify_end_of_interrupt
    \/ restore

(***************************************************************************)
(* The I/O APIC: a select register at the base address, a data window at   *)
(* base + 0x10 onto the register the select register names.                *)
(***************************************************************************)
IoApicBase == CHOOSE b \in BaseInputs : TRUE

SelectAddr == IoApicBase

DataAddr == IoApicBase + DATA_OFFSET

Registers == {IA_ID_REG, IA_VER_REG, IA_ARB_REG}

\* IoApic::new(base_addr): reg_sel and data are made from references to
\* the temporaries `base_addr as u32` and `(base_addr + 0x10) as u32`, so
\* they refer to the stack slots that held those values, which are dead
\* when new returns.  The handles a build can produce:
IoApicNew(base_addr) ==
    {[reg_sel |-> a, data |-> b] : a \in TempSlots, b \in TempSlots}

Store(addr, val) == [kind |-> "store", addr |-> addr, val |-> val]

Load(addr, val) == [kind |-> "load", addr |-> addr, val |-> val]

\* A volatile write of val to addr.  A write to a dead stack slot reaches
\* no part of the I/O APIC.
MemWrite(dev, addr, val) ==
    IF addr = SelectAddr THEN [dev EXCEPT !.reg_sel = val]
    ELSE IF addr = DataAddr /\ dev.reg_sel \in Registers
    THEN [dev EXCEPT !.regs[dev.reg_sel] = val]
    ELSE dev

\* What a volatile read of addr can return.
MemRead(dev, addr) ==
    IF addr = SelectAddr THEN {dev.reg_sel}
    ELSE IF addr = DataAddr /\ dev.reg_sel \in Registers
    THEN {dev.regs[dev.reg_sel]}
    ELSE GarbageInputs

\* The register of the bank an access to addr reaches.
Reached(dev, addr) ==
    IF addr = DataAddr /\ dev.reg_sel \in Registers
    THEN {dev.reg_sel} ELSE {}

Idle ==
    [pc |-> "idle", query |-> "none", kind |-> "none", reg |-> 0,
     val |-> 0, between |-> {}, trace |-> <<>>]

NoTransaction ==
    [caller |-> 0, query |-> "none", kind |-> "none", reg |-> 0,
     val |-> 0, result |-> 0, value |-> 0, between |-> {}, hit |-> {},
     trace |-> <<>>, before |-> device.regs, after |-> device.regs]

\* Init: IoApic::new(base) has run.
ApicInit ==
    /\ ioapic \in IoApicNew(IoApicBase)
    /\ device \in [reg_sel : {IA_ID_REG},
                   regs : [Registers -> RegisterInputs]]
    /\ lock = 0
    /\ call = [c \in Callers |-> Idle]
    /\ last = NoTransaction

\* The I/O APIC while the model follows the PICs.
ApicParked ==
    /\ ioapic = [reg_sel |-> 4096, data |-> 4100]
    /\ device = [reg_sel |-> IA_ID_REG,
                 regs |-> [r \in Registers |-> 0]]
    /\ lock = 0
    /\ call = [c \in Callers |-> Idle]
    /\ last = NoTransaction

(***************************************************************************)
(* read_reg and write_reg: two volatile accesses each.  With guarded, the  *)
(* caller holds the IoApic exclusively from before the first access until  *)
(* after the second.  query is the function the caller called: read_reg,   *)
(* write_reg, or one of id, version, irqs, arbitration_id, which call      *)
(* read_reg and take a bit field of what it returns.                       *)
(***************************************************************************)
\* BitField::get_bits(lo..hi) of a u32: bits lo to hi - 1, shifted down.
GetBits(v, lo, hi) == (v \div 2^lo) % 2^(hi - lo)

\* `as u8` of a u32: the low 8 bits.
AsU8(x) == x % 256

\* The register each query reads.
QueryReg(query) ==
    CASE query = "id" -> IA_ID_REG
      [] query = "version" -> IA_VER_REG
      [] query = "irqs" -> IA_VER_REG
      [] query = "arbitration_id" -> IA_ARB_REG

\* What function query returns when its read_reg returned got.
Returned(query, got) ==
    CASE query = "id" -> AsU8(GetBits(got, 24, 28))
      [] query = "version" -> AsU8(GetBits(got, 0, 9))
      [] query = "irqs" -> AsU8(GetBits(got, 16, 24))
      [] query = "arbitration_id" -> AsU8(GetBits(got, 24, 28))
      [] OTHER -> got

\* self.reg_sel.as_mut_ptr().write(reg as u32); a u8 widens to u32
\* unchanged.
SelectWrite(c, query, kind, reg, val, guarded) ==
    /\ call[c].pc = "idle"
    /\ guarded => lock = 0
    /\ lock' = IF guarded THEN c ELSE lock
    /\ device' = MemWrite(device, ioapic.reg_sel, reg)
    /\ call' = [d \in Callers |->
                   IF d = c
                   THEN [pc |-> "data", query |-> query, kind |-> kind,
                         reg |-> reg, val |-> val, between |-> {},
                         trace |-> <<Store(ioapic.reg_sel, reg)>>]
                   ELSE IF call[d].pc = "data"
                   THEN [call[d] EXCEPT !.between = {reg}]
                   ELSE call[d]]
    /\ UNCHANGED <<ioapic, last, picVars, otherVars>>

\* The transaction of caller c is complete: got is what it read, dev the
\* I/O APIC after its second access a.
Complete(c, got, dev, a, guarded) ==
    /\ last' = [caller |-> c, query |-> call[c].query,
                kind |-> call[c].kind, reg |-> call[c].reg,
                val |-> call[c].val, result |-> got,
                value |-> Returned(call[c].query, got),
                between |-> call[c].between,
                hit |-> Reached(device, ioapic.data),
                trace |-> Append(call[c].trace, a),
                before |-> device.regs, after |-> dev.regs]
    /\ device' = dev
    /\ call' = [call EXCEPT ![c] = Idle]
    /\ lock' = IF guarded THEN 0 ELSE lock
    /\ UNCHANGED <<ioapic, picVars, otherVars>>

\* self.data.as_ptr().read()
DataRead(c, query, guarded) ==
    /\ call[c].pc = "data"
    /\ call[c].kind = "read"
    /\ call[c].query = query
    /\ \E got \in MemRead(device, ioapic.data) :
          Complete(c, got, device, Load(ioapic.data, got), guarded)

\* self.data.as_mut_ptr().write(val)
DataWriteReg(c, guarded) ==
    /\ call[c].pc = "data"
    /\ call[c].kind = "write"
    /\ Complete(c, 0, MemWrite(device, ioapic.data, call[c].val),
                Store(ioapic.data, call[c].val), guarded)

\* IoApic::read_reg
read_reg(c, guarded) ==
    \/ \E reg \in Registers :
          SelectWrite(c, "read_reg", "read", reg, 0, guarded)
    \/ DataRead(c, "read_reg", guarded)

\* IoApic::write_reg
write_reg(c, guarded) ==
    \/ \E reg \in Registers, val \in WriteInputs :
          SelectWrite(c, "write_reg", "write", reg, val, guarded)
    \/ DataWriteReg(c, guarded)

\* A query: self.read_reg(QueryReg(query)).get_bits(..) as u8
ReadField(c, query, guarded) ==
    \/ SelectWrite(c, query, "read", QueryReg(query), 0, guarded)
    \/ DataRead(c, query, guarded)

\* IoApic::id
id(c, guarded) == ReadField(c, "id", guarded)

\* IoApic::version
version(c, guarded) == ReadField(c, "version", guarded)

\* IoApic::irqs
irqs(c, guarded) == ReadField(c, "irqs", guarded)

\* IoApic::arbitration_id
arbitration_id(c, guarded) == ReadField(c, "arbitration_id", guarded)

ApicGuardedNext ==
    \E c \in Callers :
        \/ read_reg(c, TRUE)
        \/ write_reg(c, TRUE)
        \/ id(c, TRUE)
        \/ version(c, TRUE)
        \/ irqs(c, TRUE)
        \/ arbitration_id(c, TRUE)

ApicRaceNext ==
    \E c \in Callers : read_reg(c, FALSE) \/ write_reg(c, FALSE)

(***************************************************************************)
(* ChainedPics shared by several execution contexts, as the module docs    *)
(* have it: in a static Mutex<ChainedPics>, every operation made through   *)
(* PICS.lock(), the guard held from before the operation's first port      *)
(* access until after its last.  Here an operation's port accesses are     *)
(* steps of their own, so that the contexts interleave wherever the guard  *)
(* lets them.                                                              *)
(***************************************************************************)
Resting(done) ==
    [op |-> "idle", args |-> <<>>, ip |-> 1, saved_masks |-> <<0, 0>>,
     last |-> done]

\* No context has touched the PICs.
GuardParked ==
    /\ holder = 0
    /\ ctx = [c \in Contexts |-> Resting("none")]
    /\ stray = FALSE

\* PICS.lock() replaced by access with no guard.
GuardIgnored == TRUE

\* PICS.lock() returns when no other context holds the guard.
GuardFree == holder = 0

\* The operations other contexts run against an initialize.
GuardedCalls ==
    {<<"initialize", <<>>>>, <<"disable", <<>>>>,
     <<"read_interrupt_masks", <<>>>>}
    \cup {<<"write_interrupt_masks", <<m, n>>>> :
              m \in {251}, n \in MaskInputs}

\* PICS.lock(): context c takes the guard and enters operation name.
Lock(c, name, a) ==
    /\ ctx[c].op = "idle"
    /\ GuardFree
    /\ holder' = c
    /\ ctx' = [ctx EXCEPT ![c] = [@ EXCEPT !.op = name, !.args = a,
                                            !.ip = 1,
                                            !.saved_masks = <<0, 0>>]]
    /\ UNCHANGED <<picVars, apicVars, modeVars, stray>>

\* A data byte a chip in its handshake takes from a context that is not
\* running initialize.
Strays(c, ins) ==
    /\ ins.kind = "out"
    /\ ins.port \in {MASTER_DATA, SLAVE_DATA}
    /\ chip[ChipOf(ins.port)].awaiting > 0
    /\ ctx[c].op # "initialize"

\* Context c makes the next port access of its operation.
Step(c) ==
    /\ ctx[c].op # "idle"
    /\ LET code == Code(ctx[c].op, ctx[c].args, pics, ctx[c].saved_masks)
       IN  /\ ctx[c].ip <= Len(code)
           /\ LET ins == code[ctx[c].ip]
                  m == Access([chip |-> chip,
                               saved_masks |-> ctx[c].saved_masks,
                               trace |-> <<>>], ins)
              IN  /\ chip' = m.chip
                  /\ ctx' = [ctx EXCEPT ![c] =
                                [@ EXCEPT !.ip = @ + 1,
                                          !.saved_masks = m.saved_masks]]
                  /\ stray' = (stray \/ Strays(c, ins))
    /\ UNCHANGED <<pics, overflow_checks, pc, op, args, result, trace, pre,
                   prev, apicVars, modeVars, holder>>

\* The operation of context c returns and its guard is dropped.
Unlock(c) ==
    /\ ctx[c].op # "idle"
    /\ ctx[c].ip > Len(Code(ctx[c].op, ctx[c].args, pics,
                            ctx[c].saved_masks))
    /\ ctx' = [ctx EXCEPT ![c] = Resting(ctx[c].op)]
    /\ holder' = IF holder = c THEN 0 ELSE holder
    /\ UNCHANGED <<picVars, apicVars, modeVars, stray>>

GuardedNext ==
    \E c \in Contexts :
        \/ \E g \in GuardedCalls : Lock(c, g[1], g[2])
        \/ Step(c)
        \/ Unlock(c)

(***************************************************************************)
(* DeliveryMode values, through the functions bitflags! generates.         *)
(***************************************************************************)
\* DeliveryMode::NAME
Named(name) ==
    [parts |-> {name}, bits |-> DeliveryMode[name], asked |-> "none",
     answer |-> FALSE]

ModesInit == flags \in {Named(name) : name \in DOMAIN DeliveryMode}

\* The DeliveryMode value while the model follows the PICs or the I/O APIC.
ModesParked == flags = Named("FIXED")

OtherParked == ModesParked /\ GuardParked

\* flags.insert(DeliveryMode::NAME), flags | DeliveryMode::NAME
insert ==
    \E name \in DOMAIN DeliveryMode :
        /\ name \notin flags.parts
        /\ flags' = [parts |-> flags.parts \cup {name},
                     bits |-> BitOr(flags.bits, DeliveryMode[name]),
                     asked |-> "none", answer |-> FALSE]
        /\ UNCHANGED <<picVars, apicVars, guardVars>>

\* flags.contains(DeliveryMode::NAME)
contains ==
    \E name \in DOMAIN DeliveryMode :
        /\ flags' = [flags EXCEPT
                        !.asked = name,
                        !.answer = Contains(flags.bits, DeliveryMode[name])]
        /\ UNCHANGED <<picVars, apicVars, guardVars>>

ModesNext == insert \/ contains

InitModes == ModesInit /\ PicParked /\ ApicParked /\ GuardParked

\* DeliveryMode values made, combined and compared.
SpecModes == InitModes /\ [][ModesNext]_vars

InitGuarded ==
    /\ \E o \in OffsetInputs, m \in MaskInputs \X MaskInputs :
          PicInitWith(o, m, FALSE)
    /\ GuardParked
    /\ ApicParked
    /\ ModesParked

\* Contexts that make every operation under the guard.
SpecGuarded == InitGuarded /\ [][GuardedNext]_vars

InitApic == ApicInit /\ PicParked /\ OtherParked

\* Callers that hold the IoApic exclusively for each transaction.
SpecApic == InitApic /\ [][ApicGuardedNext]_vars

\* Callers that share the IoApic with no guard.
SpecApicRace == InitApic /\ [][ApicRaceNext]_vars

\* One caller using the PICs.
Init == PicInit /\ ApicParked /\ OtherParked

Spec == Init /\ [][PicNext]_vars

\* ChainedPics and IoApic share no state: a run of the crate is a run of
\* the one while the other is left as constructed.
InitCrate == Init \/ InitApic

CrateNext ==
    \/ ApicParked /\ PicNext
    \/ PicParked /\ ApicGuardedNext

SpecCrate == InitCrate /\ [][CrateNext]_vars

(***************************************************************************)
(* Properties of ChainedPics.                                              *)
(***************************************************************************)
\* The range [offset, offset + 8) of a chip, offset + 8 an integer.
InRange(offset, irq_id) == offset <= irq_id /\ irq_id < offset + 8

Done(name) == pc = "idle" /\ op = name

\* C1: handles_interrupt(id) returns a boolean, true exactly when
\* p <= id < p + 8 or s <= id < s + 8 with p + 8 and s + 8 integers, for
\* every pair of offsets (no wraparound, no overflow abort).
C1_HandlesInterruptIsRange ==
    op = "handles_interrupt" =>
        /\ result.kind = "bool"
        /\ result.bool = (\/ InRange(pre.offsets[1], args[1])
                          \/ InRange(pre.offsets[2], args[1]))

\* C2: initialize() run to completion and then read_interrupt_masks()
\* returns exactly the masks the two chips held before initialize().
C2_MaskRoundTrip ==
    (Done("read_interrupt_masks") /\ prev.op = "initialize") =>
        result = Masks(prev.masks)

C2_Witness ==
    /\ Done("read_interrupt_masks")
    /\ prev.op = "initialize"
    /\ result.masks = <<251, 255>>
    /\ pre.chip[0].mode = PIC_MODE_8086

\* C3: notify_end_of_interrupt(id) writes exactly two EOI bytes, to the
\* secondary command port and then to the primary one, when id is in the
\* secondary's range, and exactly one, to the primary command port, when
\* id is in the primary's range and not in the secondary's.
C3_EoiRouting ==
    op = "notify_end_of_interrupt" =>
        /\ InRange(pre.offsets[2], args[1]) =>
              /\ pc = "idle"
              /\ trace = <<Out(SLAVE_CMD, PIC_EIO), Out(MASTER_CMD, PIC_EIO)>>
        /\ (InRange(pre.offsets[1], args[1])
            /\ ~InRange(pre.offsets[2], args[1])) =>
              /\ pc = "idle"
              /\ trace = <<Out(MASTER_CMD, PIC_EIO)>>

\* C4: notify_end_of_interrupt(id) with id outside both chips' ranges
\* makes no port access, reports no error and leaves the stored offsets
\* and both chips unchanged.
C4_NotifyOutsideIsNoOp ==
    (/\ op = "notify_end_of_interrupt"
     /\ ~InRange(pre.offsets[1], args[1])
     /\ ~InRange(pre.offsets[2], args[1])) =>
        /\ pc = "idle"
        /\ result = Unit
        /\ trace = <<>>
        /\ chip = pre.chip
        /\ Offsets(pics) = pre.offsets

C4_Witness ==
    /\ Done("notify_end_of_interrupt")
    /\ pre.offsets = <<247, 248>>
    /\ args = <<35>>
    /\ overflow_checks

\* The writes of a trace that are no settling writes.
IsProtocolWrite(a) == a.kind = "out" /\ a.port # WAIT_PORT

\* C5: the port writes of initialize(): the init command and handshake
\* bytes 1, 2, 3 go out in four steps, in each step first to the primary
\* chip and then to the secondary, so both chips have step k before either
\* has step k + 1, and a settling write to port 0x80 follows every one of
\* the 8 writes (8 settling writes).
C5_HandshakeOrder ==
    Done("initialize") =>
        LET w == SelectSeq(trace, IsProtocolWrite)
            settle == {i \in 1..Len(trace) : trace[i] = Wait}
            \* the last two protocol writes restore the masks
            steps == {i \in 1..Len(trace) :
                         IsProtocolWrite(trace[i]) /\ i <= Len(trace) - 2}
        IN  /\ Len(w) = 10
            /\ \A k \in 1..4 :
                  /\ ChipOf(w[2 * k - 1].port) = 0
                  /\ ChipOf(w[2 * k].port) = 1
            /\ \A j \in 1..2 : w[j].port \in {MASTER_CMD, SLAVE_CMD}
            /\ \A j \in 3..8 : w[j].port \in {MASTER_DATA, SLAVE_DATA}
            /\ Cardinality(steps) = 8
            /\ Cardinality(settle) = 8
            /\ \A i \in steps : i + 1 \in settle

C5_Witness ==
    /\ Done("initialize")
    /\ pre.offsets = <<32, 40>>
    /\ Len(trace) = 20

\* C6: disable() and then read_interrupt_masks() returns [0xFF, 0xFF]
\* whatever the masks were; a second disable() leaves the chips and the
\* stored offsets as the first left them.
C6_DisableMasksAll ==
    /\ (Done("read_interrupt_masks") /\ prev.op = "disable") =>
          result = Masks(<<U8_MAX, U8_MAX>>)
    /\ (Done("disable") /\ prev.op = "disable") =>
          /\ chip = pre.chip
          /\ Offsets(pics) = pre.offsets

C6_Witness ==
    /\ Done("read_interrupt_masks")
    /\ prev.op = "disable"
    /\ result = Masks(<<U8_MAX, U8_MAX>>)

\* C7: restore() sets the stored offsets to 0 and 8 whatever they were;
\* afterwards handles_interrupt(id) is true exactly for id in 0..15.
C7_RestoreDefaults ==
    /\ Done("restore") =>
          /\ Offsets(pics) = <<0, 8>>
          /\ \A irq_id \in 0..U8_MAX :
                /\ ~HandlesInterruptPanics(pics, irq_id)
                /\ HandlesInterrupt(pics, irq_id) <=> irq_id \in 0..15
    /\ (op = "handles_interrupt" /\ prev.op = "restore") =>
          result = Bool(args[1] \in 0..15)

C7_Witness ==
    /\ Done("restore")
    /\ pre.offsets = <<247, 248>>
    /\ Offsets(pics) = <<0, 8>>

\* The vectors chip i raises: its programmed base plus the line, 0..7.
HardwareVectors(i) == {chip[i].base + line : line \in 0..7}

\* The accesses of a trace that go to chip i's ports.
WritesTo(t, i) ==
    SelectSeq(t, LAMBDA a : a.kind = "out" /\ ChipOf(a.port) = i)

\* What initialize() has made of the chips: each has had the init command
\* and its three bytes, and holds them.
HandshakeProgramsChips ==
    /\ SubSeq(WritesTo(trace, 0), 1, 4) =
          <<Out(32, 17), Out(33, pics[0].offset), Out(33, 4), Out(33, 1)>>
    /\ SubSeq(WritesTo(trace, 1), 1, 4) =
          <<Out(160, 17), Out(161, pics[1].offset), Out(161, 2),
            Out(161, 1)>>
    /\ \A i \in Chips :
          /\ chip[i].awaiting = 0
          /\ chip[i].base = pics[i].offset
          /\ chip[i].mode = 1
    /\ chip[0].cascade = 4
    /\ chip[1].cascade = 2

\* handles_interrupt answers true exactly on the vectors the chips raise.
RangeTestAgrees ==
    \A irq_id \in 0..U8_MAX :
        /\ ~HandlesInterruptPanics(pics, irq_id)
        /\ HandlesInterrupt(pics, irq_id) <=>
              \E i \in Chips : irq_id \in HardwareVectors(i)

Reads(t) == Len(SelectSeq(t, LAMBDA a : a.kind = "in"))

Writes(t) == Len(SelectSeq(t, LAMBDA a : a.kind = "out"))

\* C17: every operation ends after a fixed number of I/O accesses, whatever
\* its inputs and the chips' state: initialize() makes exactly 2 port
\* reads and 18 port writes (8 protocol writes, 8 settling writes, 2 mask
\* writes), notify_end_of_interrupt at most 2 writes and no read,
\* read_interrupt_masks 2 reads, write_interrupt_masks and disable 2
\* writes, new, handles_interrupt and restore none; read_reg, write_reg
\* and the queries built on read_reg exactly 2 accesses.
C17_FixedAccessCounts ==
    /\ op = "initialize" =>
          /\ pc = "idle"
          /\ Reads(trace) = 2
          /\ Writes(trace) = 18
          /\ Len(SelectSeq(trace, LAMBDA a : a = Wait)) = 8
          /\ Len(SelectSeq(SubSeq(trace, 1, 18), IsProtocolWrite)) = 8
          /\ \A i \in Chips :
                trace[19 + i] = Out(pics[i].data, pre.masks[i + 1])
    /\ op = "notify_end_of_interrupt" =>
          Reads(trace) = 0 /\ Writes(trace) <= 2
    /\ op = "read_interrupt_masks" =>
          Reads(trace) = 2 /\ Writes(trace) = 0
    /\ op \in {"write_interrupt_masks", "disable"} =>
          Reads(trace) = 0 /\ Writes(trace) = 2
    /\ op \in {"new", "handles_interrupt", "restore"} => trace = <<>>
    /\ last.query # "none" => Len(last.trace) = 2
    /\ \A c \in Callers :
          Len(call[c].trace) = (IF call[c].pc = "data" THEN 1 ELSE 0)

C17_Witness ==
    /\ Done("initialize")
    /\ pre.masks = <<251, 0>>
    /\ pre.offsets = <<248, 32>>
    /\ Reads(trace) = 2
    /\ Writes(trace) = 18

\* C18: new, handles_interrupt and restore make no port access and leave
\* the chips as they were; restore() after an initialize() with offsets
\* (p, s) leaves the chips raising vectors from p and s while the stored
\* offsets are 0 and 8, until initialize() runs again and programs 0 and 8.
C18_NoPortAccess ==
    /\ op \in {"new", "handles_interrupt", "restore"} =>
          /\ trace = <<>>
          /\ chip = pre.chip
    /\ (Done("restore") /\ prev.op = "initialize") =>
          /\ \A i \in Chips : chip[i].base = pre.offsets[i + 1]
          /\ Offsets(pics) = <<0, 8>>
    /\ (Done("initialize") /\ prev.op = "restore") =>
          \A i \in Chips : chip[i].base = Offsets(pics)[i + 1]

C18_Witness ==
    /\ Done("restore")
    /\ prev.op = "initialize"
    /\ pre.offsets = <<32, 40>>
    /\ chip[0].base = 32
    /\ chip[1].base = 40
    /\ Offsets(pics) = <<0, 8>>

\* C19: initialize() run twice in succession leaves the chips as one run
\* leaves them: the masks they had before the first run, the same vector
\* bases, chaining bytes and mode, and neither chip awaiting a handshake
\* byte; the masks the first run wrote back are masks when the second
\* begins, not handshake bytes.
C19_InitializeTwice ==
    (Done("initialize") /\ prev.op = "initialize") =>
        /\ chip = pre.chip
        /\ ChipMasks(chip) = prev.masks
        /\ pre.masks = prev.masks
        /\ \A i \in Chips :
              /\ pre.chip[i].awaiting = 0
              /\ chip[i].awaiting = 0

C19_Witness ==
    /\ Done("initialize")
    /\ prev.op = "initialize"
    /\ prev.masks = <<251, 255>>
    /\ pre.offsets = <<32, 40>>
    /\ chip[1].mask = 255

\* C11: with initialize() and every mask operation of the other contexts
\* made under the one guard, held for the whole operation, in every
\* interleaving the chips are outside the handshake whenever no operation
\* is under way, once an initialize() has completed each chip's vector
\* base is its stored offset, and no chip ever takes a mask byte of
\* another context as a handshake byte.
C11_GuardedInitialize ==
    /\ ~stray
    /\ holder = 0 =>
          /\ \A i \in Chips : chip[i].awaiting = 0
          /\ (\E c \in Contexts : ctx[c].last = "initialize") =>
                \A i \in Chips : chip[i].base = pics[i].offset

C11_Witness ==
    /\ holder = 0
    /\ ctx[1].last = "initialize"
    /\ ctx[2].last = "write_interrupt_masks"
    /\ ChipMasks(chip) = <<251, 255>>
    /\ Offsets(pics) = <<32, 40>>
    /\ chip[0].base = 32
    /\ chip[1].base = 40

(***************************************************************************)
(* Properties of IoApic.                                                   *)
(***************************************************************************)
\* The effect of a completed transaction t when its data access is on
\* register r of the bank: a read returns r's value and changes nothing,
\* a write makes r the written value and changes no other register.
ActsOn(t, r) ==
    /\ t.kind = "read" => t.result = t.before[r] /\ t.after = t.before
    /\ t.kind = "write" => t.after = [t.before EXCEPT ![r] = t.val]

\* C8: read_reg(index) writes index to the select register at the base
\* address B and then reads the data register at B + 0x10 once, returning
\* the value of register index; write_reg(index, v) writes index to B and
\* then v to B + 0x10, so that register index becomes v and no other
\* register changes.
C8_RegAccessAtBase ==
    last.kind # "none" =>
        /\ Len(last.trace) = 2
        /\ last.trace[1] = Store(IoApicBase, last.reg)
        /\ last.kind = "read" =>
              last.trace[2] = Load(IoApicBase + 16, last.result)
        /\ last.kind = "write" =>
              last.trace[2] = Store(IoApicBase + 16, last.val)
        /\ ActsOn(last, last.reg)

\* C9: with every transaction under the guard, in every interleaving of
\* the callers the data access of a transaction is on the register its
\* own caller selected.
C9_GuardedHitsSelected ==
    last.kind # "none" =>
        /\ last.hit = {last.reg}
        /\ ActsOn(last, last.reg)

\* C10: with no guard, when another caller's select write of j # i falls
\* between a caller's select write of i and its data access, the data
\* access is on register j: the read returns j's value, the write stores
\* into j.
C10_RaceMisdirects ==
    (/\ last.kind # "none"
     /\ last.between # {}
     /\ last.between # {last.reg}) =>
        /\ last.hit = last.between
        /\ \A j \in last.between : ActsOn(last, j)

\* A completed query has read the register it is about: its select write
\* made that register the selected one and its read returned the
\* register's value.
ReadsRegister(t) ==
    /\ t.hit = {QueryReg(t.query)}
    /\ t.result = t.before[QueryReg(t.query)]

\* C12: for every value v of the version register, version() returns bits
\* 0 to 8 of v, the whole 9-bit field: v mod 512 (0x11 for 0x0017_0011).
C12_VersionField ==
    last.query = "version" =>
        /\ ReadsRegister(last)
        /\ last.value = last.result % 512

\* C13: id() returns bits 24 to 27 of the identity register (index 0x00),
\* irqs() bits 16 to 23 of the version register (index 0x01), and
\* arbitration_id() bits 24 to 27 of the arbitration register (index
\* 0x02), each having selected exactly that register.
C13_FieldQueries ==
    /\ last.query = "id" =>
          /\ last.trace[1].val = 0
          /\ ReadsRegister(last)
          /\ last.value = (last.result \div 16777216) % 16
    /\ last.query = "irqs" =>
          /\ last.trace[1].val = 1
          /\ ReadsRegister(last)
          /\ last.value = (last.result \div 65536) % 256
    /\ last.query = "arbitration_id" =>
          /\ last.trace[1].val = 2
          /\ ReadsRegister(last)
          /\ last.value = (last.result \div 16777216) % 16

\* C14: the line-count query yields the zero-based field of bits 16 to 23
\* plus one, for every field value 0..254: 24 for 0x0017_0011.
C14_LineCount ==
    last.query = "irqs" =>
        LET field == (last.result \div 65536) % 256
        IN  /\ ReadsRegister(last)
            /\ field <= 254 => last.value = field + 1

\* C15: the six DeliveryMode patterns are pairwise distinct, each fits the
\* 3-bit field (0..7), and each is told apart as a whole pattern: a named
\* mode is reported to contain no other named mode, and no union of named
\* modes is the pattern of another one.
C15_DeliveryModePatterns ==
    LET names == DOMAIN DeliveryMode
        named == Cardinality(flags.parts) = 1
    IN  /\ named => flags.bits \in 0..7
        /\ \A other \in names \ flags.parts :
              flags.bits # DeliveryMode[other]
        /\ (named /\ flags.asked # "none") =>
              (flags.answer <=> flags.asked \in flags.parts)
=============================================================================
